---- MODULE Spec2Model ----
(***************************************************************************)
(* Verification model of the cedra indexer processors: the bounded-retry   *)
(* resolvers against the persisted store, the per-key current-state        *)
(* reducer, the version tracker, and the staged pipeline (transaction      *)
(* stream -> extractor -> storer -> version tracker -> run loop) with      *)
(* checkpoint-based resumption.                                            *)
(*                                                                         *)
(* The specifications share the module's variables; each one leaves the    *)
(* variables of the other components at their parked values.               *)
(*   SpecResolver  : one resolver lookup, read by read                     *)
(*   SpecReducer   : one batch through from_transaction and the merge      *)
(*   SpecDelete    : the reducer on writes and deletes of one key          *)
(*   SpecMalformed : the reducer on transactions with absent parts         *)
(*   SpecSite      : the call sites that fall back on a resolver           *)
(*   SpecContext   : the two passes over a batch that build and use the    *)
(*                   table-handle context                                  *)
(*   SpecShare     : inactive-share balance rows from writes and deletes   *)
(*   SpecClaim     : the owner of a deleted pending token claim            *)
(*   SpecTracker   : the version tracker fed arbitrary batches             *)
(*   SpecStorer    : the storer given arbitrary batches, replays included  *)
(*   SpecResume    : start-up from any checkpoint and configured start     *)
(*   SpecCleanRun  : the pipeline without stage errors, run to its end     *)
(*   SpecScenario  : the three-transaction run of versions 100..102        *)
(*   Spec          : the whole pipeline, with stage errors and restarts    *)
(***************************************************************************)
EXTENDS Integers, Sequences, FiniteSets, TLC

VARIABLES
    \* ---- inactive-share delegator balances, as stored
    ib_current,      \* current_delegator_balances rows with pool_type
                     \* inactive_shares
    ib_history,      \* their paired delegator_balances (history) rows
    ib_version,      \* version of the next transaction
    \* ---- one call of CurrentTokenPendingClaim::from_delete_table_item
    claim_in,        \* its arguments
    claim_out,       \* "pending", then what the call gave
    \* ---- the in-batch table-handle context of the token extractor
    ctx_txns,        \* the transactions of the batch, in batch order
    ctx_pc,          \* "first" (pass), "second" (pass), "done"
    ctx_i,           \* index of the transaction the pass is at
    table_handle_to_owner, \* per handle: the version of the write resource
                     \* its entry came from, or NoVersion
    interpreted,     \* table items interpreted: [version, handle, from]
    \* ---- resolver (get_collection_creator and its three siblings)
    resolver,        \* which resolver function is running
    query_retries,   \* its query_retries argument
    row_exists,      \* whether the persisted table holds a matching row
    tried,           \* the local `tried`
    r_pc,            \* position in the loop: "loop", "read", "sleep", "done"
    reads,           \* store reads issued so far
    query_retry_delay_ms, \* its query_retry_delay_ms argument
    sleeps,          \* the lengths of the tokio::time::sleep calls so far
    r_result,        \* what the function returned ("none" while running)
    all_failed,      \* every read so far returned Err
    \* ---- reference lookups at the call sites, over the changes of one batch
    local_ctx,       \* keys the in-batch mappings of the first pass hold
    stored,          \* keys the persisted current-state store holds a row for
    cs_pc,           \* "idle", "local", "resolve", "done", "aborted"
    cs_site,         \* the call site handling the change in process
    cs_key,          \* the reference key that change names
    cs_left,         \* changes of the batch not yet taken
    invocations,     \* per key: resolver calls made for it in this batch
    rows_out,        \* lookups served: where the reference came from and the
                     \* row built from it ("none": no row)
    applied,         \* per entity type: the policies applied on exhaustion
    cs_logs,         \* log records emitted for exhausted lookups
    cs_continued,    \* exhausted lookups after which processing went on
    \* ---- current-state reducer (from_transaction and the batch merge)
    red_pc,          \* "txn" (inside a transaction), "done"
    txn_version,     \* version of the transaction being reduced
    txn_index,       \* its position in the batch, from 1
    change_index,    \* write-set changes of it consumed so far
    txn_current,     \* the transaction's current-state map (a set of rows)
    batch_current,   \* the batch's merged current-state map
    deltas,          \* every delta the batch produced: [key, version, index,
                     \* kind]
    kinds,           \* the kinds of table-item change the batch contains
    txn_limit,       \* the number of transactions of the batch
    skipped,         \* versions of the transactions met without txn_data
    \* ---- persisted store (survives a restart)
    checkpoint,      \* processor_status.last_success_version, or NoVersion
    current,         \* current-state table: a set of rows
    history,         \* history table: rows in insertion order
    last_commit,     \* the last batch the Storer fully committed
    committed,       \* per batch the Storer alone was given and committed:
                     \* its current-state rows right after the first commit
    \* ---- configuration
    config_starting_version,  \* starting_version of the config, or NoVersion
    config_ending_version,    \* request_ending_version of the config
    \* ---- one run of run_processor (lost when the process ends)
    run,             \* "running", "ok" (run_processor returned Ok), "crashed"
    stream_config,   \* the TransactionStreamConfig the Source was built with
    checkpoint_at_start, \* the checkpoint get_starting_version read
    source_next,     \* next version the Source will emit
    alive,           \* alive[p]: the task of the step at position p runs
    chan,            \* chan[p]: the channel from position p to p + 1
    phase,           \* phase[p]: "idle", "work" (in process), "ready" (to send)
    hold,            \* hold[p]: the batch the step holds
    pending,         \* reference lookups of the extractor's batch not yet joined
    watermark,       \* the tracker's highest contiguous end_version
    tracker_gap,     \* the tracker reported a version gap
    last_fed,        \* the last batch the tracker processed
    prev_watermark,  \* the watermark before it
    stage_failed,    \* some step's process returned an error in this run
    rcvd,            \* rcvd[p]: <<start, end>> of the batches position p took
    sent,            \* sent[p]: <<start, end>> of the batches position p sent
    unjoined_forward, \* the extractor forwarded a batch with lookups pending
    restarts         \* restarts so far

resolverVars == <<resolver, query_retries, query_retry_delay_ms, row_exists, tried, r_pc, reads,
                  sleeps, r_result, all_failed>>
reducerVars == <<red_pc, txn_version, txn_index, change_index, txn_current,
                 batch_current, deltas, kinds, txn_limit, skipped>>
siteVars == <<local_ctx, stored, cs_pc, cs_site, cs_key, cs_left, invocations,
              rows_out, applied, cs_logs, cs_continued>>
storeVars == <<checkpoint, current, history, last_commit, committed>>
runVars == <<run, stream_config, checkpoint_at_start, source_next, alive, chan,
             phase, hold, pending, stage_failed, rcvd, sent, unjoined_forward,
             restarts, config_starting_version, config_ending_version>>
trackerVars == <<watermark, tracker_gap, last_fed, prev_watermark>>
pipelineVars == <<storeVars, runVars, trackerVars>>
ctxVars == <<ctx_txns, ctx_pc, ctx_i, table_handle_to_owner, interpreted>>
shareVars == <<ib_current, ib_history, ib_version>>
claimVars == <<claim_in, claim_out>>
pureVars == <<shareVars, claimVars>>
vars == <<resolverVars, reducerVars, siteVars, ctxVars, pureVars, pipelineVars>>

(***************************************************************************)
(* Bounds of the model.                                                    *)
(***************************************************************************)
MaxRetries == 5
MaxTxns == 3
MaxChanges == 2

(***************************************************************************)
(* Resolvers: a bounded retry loop around one read of the persisted store. *)
(***************************************************************************)
Resolvers == {"get_collection_creator",
              "get_delegation_pool_address_by_table_handle",
              "get_staking_pool_from_inactive_share_handle",
              "get_existence_by_pk"}

\* `while tried < query_retries`
LoopCondOffByOne(t, retries) == t <= retries
LoopCondReadsOnce(t, retries) == t = 0 \/ t < retries
LoopCond(t, retries) == t < retries

\* `if tried < query_retries { sleep }` in the Err arm
SleepCond(t, retries) == t < retries

\* tokio::time::sleep(Duration::from_millis(query_retry_delay_ms))
QUERY_DEFAULT_RETRY_DELAY_MS == 500
RetryDelays == {QUERY_DEFAULT_RETRY_DELAY_MS,
                QUERY_DEFAULT_RETRY_DELAY_MS \div 5}
PauseLengthBackoff(t, delay) == delay * t
PauseLength(t, delay) == delay

\* What each resolver returns when a read succeeds and when the loop runs out.
SuccessResult(fn) == IF fn = "get_existence_by_pk" THEN "true" ELSE "Ok"
FailureResult(fn) == IF fn = "get_existence_by_pk" THEN "false" ELSE "Err"

ResolverParked ==
    /\ query_retry_delay_ms = QUERY_DEFAULT_RETRY_DELAY_MS
    /\ resolver = "get_collection_creator"
    /\ query_retries = 0
    /\ row_exists = FALSE
    /\ tried = 0
    /\ r_pc = "done"
    /\ reads = 0
    /\ sleeps = <<>>
    /\ r_result = "none"
    /\ all_failed = TRUE

ResolverInit ==
    /\ query_retry_delay_ms \in RetryDelays
    /\ resolver \in Resolvers
    /\ query_retries \in 0..MaxRetries
    /\ row_exists \in BOOLEAN
    /\ tried = 0
    /\ r_pc = "loop"
    /\ reads = 0
    /\ sleeps = <<>>
    /\ r_result = "none"
    /\ all_failed = TRUE

\* The loop test passes: `tried += 1` and go on to the read.
ResolverEnterLoop ==
    /\ UNCHANGED <<reducerVars, siteVars, ctxVars, pureVars,
                   pipelineVars>>
    /\ r_pc = "loop"
    /\ LoopCond(tried, query_retries)
    /\ tried' = tried + 1
    /\ r_pc' = "read"
    /\ UNCHANGED <<resolver, query_retries, query_retry_delay_ms,
                   row_exists, reads, sleeps,
                   r_result, all_failed>>

\* The loop test fails: fall out of the loop to the final Err / false.
ResolverExhausted ==
    /\ UNCHANGED <<reducerVars, siteVars, ctxVars, pureVars,
                   pipelineVars>>
    /\ r_pc = "loop"
    /\ ~LoopCond(tried, query_retries)
    /\ r_pc' = "done"
    /\ r_result' = FailureResult(resolver)
    /\ UNCHANGED <<resolver, query_retries, query_retry_delay_ms,
                   row_exists, tried, reads, sleeps,
                   all_failed>>

\* The read returns Ok(row): only a stored row can be returned.
ResolverReadOk ==
    /\ UNCHANGED <<reducerVars, siteVars, ctxVars, pureVars,
                   pipelineVars>>
    /\ r_pc = "read"
    /\ row_exists
    /\ reads' = reads + 1
    /\ all_failed' = FALSE
    /\ r_pc' = "done"
    /\ r_result' = SuccessResult(resolver)
    /\ UNCHANGED <<resolver, query_retries, query_retry_delay_ms,
                   row_exists, tried, sleeps>>

\* The read returns Err (not found, or a transient error of the connection).
ResolverReadErr ==
    /\ UNCHANGED <<reducerVars, siteVars, ctxVars, pureVars,
                   pipelineVars>>
    /\ r_pc = "read"
    /\ reads' = reads + 1
    /\ r_pc' = IF SleepCond(tried, query_retries) THEN "sleep" ELSE "loop"
    /\ UNCHANGED <<resolver, query_retries, query_retry_delay_ms,
                   row_exists, tried, sleeps,
                   r_result, all_failed>>

\* tokio::time::sleep(query_retry_delay_ms), then back to the loop test.
ResolverSleep ==
    /\ UNCHANGED <<reducerVars, siteVars, ctxVars, pureVars,
                   pipelineVars>>
    /\ r_pc = "sleep"
    /\ sleeps' = Append(sleeps, PauseLength(tried, query_retry_delay_ms))
    /\ r_pc' = "loop"
    /\ UNCHANGED <<resolver, query_retries, query_retry_delay_ms,
                   row_exists, tried, reads,
                   r_result, all_failed>>

ResolverNext ==
    \/ ResolverEnterLoop
    \/ ResolverExhausted
    \/ ResolverReadOk
    \/ ResolverReadErr
    \/ ResolverSleep

(***************************************************************************)
(* Current-state reducer.                                                  *)
(***************************************************************************)
Keys == {"E", "F"}

\* The payload of the write at (version, index): every write carries its own.
Payload(v, i) == <<v, i>>

Row(k, v, i) == [key |-> k, value |-> Payload(v, i), last_transaction_version |-> v]

\* AHashMap::insert: the new row replaces the row of the same primary key.
InsertKeepFirst(m, row) ==
    IF \E r \in m : r.key = row.key THEN m ELSE m \cup {row}
Insert(m, row) == {r \in m : r.key # row.key} \cup {row}

\* A delete-type change: the row stays, with a zero amount (shares) and the
\* version of the deleting transaction.
ZeroValue == <<0, 0>>
DeleteRow(k, v) == [key |-> k, value |-> ZeroValue, last_transaction_version |-> v]
ApplyDeleteRemoves(m, k, v) == {r \in m : r.key # k}
ApplyDelete(m, k, v) == Insert(m, DeleteRow(k, v))

\* Merging one transaction's map into the batch's: each entry overwrites.
ExtendKeepFirst(m, n) == m \cup {r \in n : \A s \in m : s.key # r.key}
Extend(m, n) == {r \in m : \A s \in n : s.key # r.key} \cup n

ReducerParked ==
    /\ kinds = {"write"}
    /\ txn_limit = 0
    /\ skipped = {}
    /\ red_pc = "done"
    /\ txn_version = 0
    /\ txn_index = 0
    /\ change_index = 0
    /\ txn_current = {}
    /\ batch_current = {}
    /\ deltas = {}

ReducerInit ==
    /\ kinds = {"write"}
    /\ txn_limit = MaxTxns
    /\ skipped = {}
    /\ red_pc = "txn"
    /\ txn_version \in 0..1
    /\ txn_index = 1
    /\ change_index = 0
    /\ txn_current = {}
    /\ batch_current = {}
    /\ deltas = {}

\* One table-item change of the transaction that yields a current-state row:
\* a write carries the new value, a delete yields the row with a zero amount.
ReduceChange ==
    /\ UNCHANGED <<resolverVars, siteVars, ctxVars, pureVars,
                   pipelineVars>>
    /\ red_pc = "txn"
    /\ change_index < MaxChanges
    /\ \E k \in Keys : \E kind \in kinds :
        /\ txn_current' =
              IF kind = "delete"
              THEN ApplyDelete(txn_current, k, txn_version)
              ELSE Insert(txn_current, Row(k, txn_version, change_index))
        /\ deltas' = deltas \cup {[key |-> k, version |-> txn_version,
                                   index |-> change_index, kind |-> kind]}
    /\ change_index' = change_index + 1
    /\ UNCHANGED <<red_pc, txn_version, txn_index, batch_current, kinds,
                   txn_limit, skipped>>

\* from_transaction returns; its map is merged and the next transaction starts.
NextTransaction ==
    /\ UNCHANGED <<resolverVars, siteVars, ctxVars, pureVars,
                   pipelineVars>>
    /\ red_pc = "txn"
    /\ txn_index < txn_limit
    /\ batch_current' = Extend(batch_current, txn_current)
    /\ txn_current' = {}
    /\ txn_version' = txn_version + 1
    /\ txn_index' = txn_index + 1
    /\ change_index' = 0
    /\ UNCHANGED <<red_pc, deltas, kinds, txn_limit, skipped>>

\* The last transaction of the batch returns.
FinishBatch ==
    /\ UNCHANGED <<resolverVars, siteVars, ctxVars, pureVars,
                   pipelineVars>>
    /\ red_pc = "txn"
    /\ batch_current' = Extend(batch_current, txn_current)
    /\ txn_current' = {}
    /\ red_pc' = "done"
    /\ UNCHANGED <<txn_version, txn_index, change_index, deltas, kinds,
                   txn_limit, skipped>>

\* The transaction has no txn_data: from_transaction counts it, logs a warning
\* and returns without any change of the transaction; the caller's loop goes
\* on with the next transaction.
TxnDataAbsent ==
    /\ UNCHANGED <<resolverVars, siteVars, ctxVars, pureVars,
                   pipelineVars>>
    /\ red_pc = "txn"
    /\ change_index = 0
    /\ skipped' = skipped \cup {txn_version}
    /\ change_index' = MaxChanges
    /\ UNCHANGED <<red_pc, txn_version, txn_index, txn_current, batch_current,
                   deltas, kinds, txn_limit>>

\* The transaction has no info: expect("Transaction info doesn't exist!")
\* panics and the extractor ends without a result.
TxnInfoAbsent ==
    /\ UNCHANGED <<resolverVars, siteVars, ctxVars, pureVars,
                   pipelineVars>>
    /\ red_pc = "txn"
    /\ change_index = 0
    /\ red_pc' = "aborted"
    /\ UNCHANGED <<txn_version, txn_index, change_index, txn_current,
                   batch_current, deltas, kinds, txn_limit, skipped>>

\* A batch of two transactions whose changes are writes and deletes.
MaxDeleteTxns == 2
DeleteInit ==
    /\ kinds = {"write", "delete"}
    /\ txn_limit = MaxDeleteTxns
    /\ skipped = {}
    /\ red_pc = "txn"
    /\ txn_version = 1
    /\ txn_index = 1
    /\ change_index = 0
    /\ txn_current = {}
    /\ batch_current = {}
    /\ deltas = {}

ReducerNext ==
    \/ ReduceChange
    \/ NextTransaction
    \/ FinishBatch

(***************************************************************************)
(* The ledger, batches and the persisted tables.                           *)
(***************************************************************************)
NoVersion == 0 - 1
NoBatch == [start_version |-> NoVersion, end_version |-> NoVersion,
            history |-> <<>>, current |-> {}]

\* The first version of the ledger window of the end-to-end scenario.
ScenarioStart == 100

\* The key transaction v writes ("none": it changes no tracked entity). From
\* ScenarioStart on the ledger is the scenario's: E, E again, then F.
LedgerKey(v) ==
    CASE v = ScenarioStart     -> "E"
      [] v = ScenarioStart + 1 -> "E"
      [] v > ScenarioStart + 1 -> "F"
      [] v % 4 = 0 -> "E"
      [] v % 4 = 1 -> "none"
      [] v % 4 = 2 -> "E"
      [] OTHER     -> "F"

\* from_transaction of transaction v: its history rows and current-state map.
TxnHistory(v) ==
    IF LedgerKey(v) = "none" THEN <<>>
    ELSE <<[key |-> LedgerKey(v), transaction_version |-> v, index |-> 0]>>
TxnCurrent(v) ==
    IF LedgerKey(v) = "none" THEN {} ELSE Insert({}, Row(LedgerKey(v), v, 0))

\* The extractor's pass over the transactions of a batch, in batch order.
RECURSIVE ExtractHistory(_, _)
ExtractHistory(s, e) ==
    IF s > e THEN <<>> ELSE ExtractHistory(s, e - 1) \o TxnHistory(e)
RECURSIVE ExtractCurrent(_, _)
ExtractCurrent(s, e) ==
    IF s > e THEN {} ELSE Extend(ExtractCurrent(s, e - 1), TxnCurrent(e))

RawBatch(s, e) == [start_version |-> s, end_version |-> e,
                   history |-> <<>>, current |-> {}]
Meta(b) == [start_version |-> b.start_version, end_version |-> b.end_version]

\* Extractor::process: Ok(Some(TransactionContext { data: map, metadata })).
ExtractorDataMetaFromRows(b) ==
    [start_version |-> b.end_version, end_version |-> b.end_version,
     history |-> ExtractHistory(b.start_version, b.end_version),
     current |-> ExtractCurrent(b.start_version, b.end_version)]
ExtractorData(b) ==
    [start_version |-> b.start_version, end_version |-> b.end_version,
     history |-> ExtractHistory(b.start_version, b.end_version),
     current |-> ExtractCurrent(b.start_version, b.end_version)]
\* Whether process returns Some: the extractors never filter a batch out.
ExtractorEmitsNonEmpty(b) == ExtractorData(b).current # {}
ExtractorEmits(b) == TRUE
\* process returns once the (awaited) parse of the batch has completed.
ExtractorNoJoin(p) == TRUE
ExtractorJoined(p) == p = {}

\* insert_history: a row whose primary key is stored already is ignored.
HistoryPK(r) == <<r.key, r.transaction_version, r.index>>
InsertAppend(h, r) == Append(h, r)
InsertIgnore(h, r) ==
    IF \E i \in 1..Len(h) : HistoryPK(h[i]) = HistoryPK(r) THEN h
    ELSE Append(h, r)
RECURSIVE InsertHistory(_, _)
InsertHistory(h, rows) ==
    IF rows = <<>> THEN h
    ELSE InsertHistory(InsertIgnore(h, Head(rows)), Tail(rows))

\* upsert_current: the new row replaces the stored one, versions not compared.
UpsertCurrent(c, rows) == {r \in c : \A s \in rows : s.key # r.key} \cup rows

(***************************************************************************)
(* Resumption and the wiring of run_processor.                             *)
(***************************************************************************)
MaxVersion == 2
MaxResumeVersion == 8
MaxTrackVersion == 20
MaxBatchSize == 2
MaxRestarts == 1
ChannelSize == 1
Lookups == {"owner", "pool"}

Max(a, b) == IF a >= b THEN a ELSE b
Min(a, b) == IF a <= b THEN a ELSE b

\* get_starting_version: the configured start (default 0) merged with the
\* checkpoint of the processor.
ConfiguredStart(cfg) == IF cfg = NoVersion THEN 0 ELSE cfg
get_starting_versionIgnoresCheckpoint(cfg, cp) == ConfiguredStart(cfg)
get_starting_version(cfg, cp) ==
    IF cp = NoVersion THEN ConfiguredStart(cfg)
    ELSE Max(ConfiguredStart(cfg), cp + 1)
get_end_version(cfg_end) == cfg_end

\* TransactionStreamConfig { starting_version, request_ending_version, .. }
TransactionStreamConfigDefault(start, end) ==
    [starting_version |-> 0, request_ending_version |-> end]
TransactionStreamConfig(start, end) ==
    [starting_version |-> start, request_ending_version |-> end]

\* The steps in connect_to order; the run loop drains the last one's output.
StepsTrackerBeforeStorer ==
    <<"transaction_stream", "extractor", "version_tracker", "storer">>
Steps == <<"transaction_stream", "extractor", "storer", "version_tracker">>
Positions == 1..4
Idx(role) == CHOOSE p \in Positions : Steps[p] = role
\* channel_size of the processor config, the capacity of every channel
channel_size == ChannelSize

\* The tracker takes a batch that extends its watermark without a gap.
TrackerAcceptsAny(wm, b) == TRUE
TrackerAccepts(wm, b) == wm = NoVersion \/ b.start_version = wm + 1

\* A send on channel p succeeds while the receiving task lives.
ReceiverAlive(p) == IF p = 4 THEN run = "running" ELSE alive[p + 1]

\* A bounded channel takes a send only below its capacity; the sender waits.
HasRoomAlways(q) == TRUE
HasRoom(q) == Len(q) < channel_size

\* bounded FIFO channel: send at the back, receive at the front
Enqueue(q, b) == Append(q, b)

FreshRun(cfg, cfg_end, cp) ==
    /\ run' = "running"
    /\ checkpoint_at_start' = cp
    /\ stream_config' = TransactionStreamConfig(get_starting_version(cfg, cp),
                                                get_end_version(cfg_end))
    /\ source_next' = stream_config'.starting_version
    /\ alive' = [p \in Positions |-> TRUE]
    /\ chan' = [p \in Positions |-> <<>>]
    /\ phase' = [p \in Positions |-> "idle"]
    /\ hold' = [p \in Positions |-> NoBatch]
    /\ pending' = {}
    /\ watermark' = NoVersion
    /\ tracker_gap' = FALSE
    /\ last_fed' = NoBatch
    /\ prev_watermark' = NoVersion
    /\ stage_failed' = FALSE
    /\ rcvd' = [p \in Positions |-> <<>>]
    /\ sent' = [p \in Positions |-> <<>>]
    /\ unjoined_forward' = FALSE

\* The process ended: its tasks, channels and in-memory state are gone.
EndRun(outcome) ==
    /\ run' = outcome
    /\ alive' = [p \in Positions |-> FALSE]
    /\ chan' = [p \in Positions |-> <<>>]
    /\ phase' = [p \in Positions |-> "idle"]
    /\ hold' = [p \in Positions |-> NoBatch]
    /\ pending' = {}
    /\ watermark' = NoVersion
    /\ last_fed' = NoBatch
    /\ prev_watermark' = NoVersion

PipelineParked ==
    /\ checkpoint = NoVersion
    /\ current = {}
    /\ history = <<>>
    /\ last_commit = NoBatch
    /\ committed = {}
    /\ config_starting_version = NoVersion
    /\ config_ending_version = 0
    /\ run = "ok"
    /\ stream_config = TransactionStreamConfig(0, 0)
    /\ checkpoint_at_start = NoVersion
    /\ source_next = 0
    /\ alive = [p \in Positions |-> FALSE]
    /\ chan = [p \in Positions |-> <<>>]
    /\ phase = [p \in Positions |-> "idle"]
    /\ hold = [p \in Positions |-> NoBatch]
    /\ pending = {}
    /\ watermark = NoVersion
    /\ tracker_gap = FALSE
    /\ last_fed = NoBatch
    /\ prev_watermark = NoVersion
    /\ stage_failed = FALSE
    /\ rcvd = [p \in Positions |-> <<>>]
    /\ sent = [p \in Positions |-> <<>>]
    /\ unjoined_forward = FALSE
    /\ restarts = 0

runConst == <<stream_config, checkpoint_at_start, restarts,
              config_starting_version, config_ending_version>>
notPipeline == <<resolverVars, reducerVars, siteVars, ctxVars, pureVars>>

PipelineInit ==
    /\ checkpoint = NoVersion
    /\ current = {}
    /\ history = <<>>
    /\ last_commit = NoBatch
    /\ committed = {}
    /\ config_starting_version = NoVersion
    /\ config_ending_version = MaxVersion
    /\ run = "running"
    /\ checkpoint_at_start = NoVersion
    /\ stream_config =
         TransactionStreamConfig(
             get_starting_version(config_starting_version, NoVersion),
             get_end_version(config_ending_version))
    /\ source_next = stream_config.starting_version
    /\ alive = [p \in Positions |-> TRUE]
    /\ chan = [p \in Positions |-> <<>>]
    /\ phase = [p \in Positions |-> "idle"]
    /\ hold = [p \in Positions |-> NoBatch]
    /\ pending = {}
    /\ watermark = NoVersion
    /\ tracker_gap = FALSE
    /\ last_fed = NoBatch
    /\ prev_watermark = NoVersion
    /\ stage_failed = FALSE
    /\ rcvd = [p \in Positions |-> <<>>]
    /\ sent = [p \in Positions |-> <<>>]
    /\ unjoined_forward = FALSE
    /\ restarts = 0

(***************************************************************************)
(* The transaction stream (position 1).                                    *)
(***************************************************************************)
\* The Source sends the next batch: contiguous, of 1..MaxBatchSize versions.
SourceEmit ==
    /\ run = "running" /\ alive[1]
    /\ source_next <= stream_config.request_ending_version
    /\ HasRoom(chan[1])
    /\ ReceiverAlive(1)
    /\ \E n \in 1..MaxBatchSize :
        LET e == Min(source_next + n - 1, stream_config.request_ending_version)
            b == RawBatch(source_next, e)
        IN /\ chan' = [chan EXCEPT ![1] = Enqueue(@, b)]
           /\ sent' = [sent EXCEPT ![1] = Append(@, Meta(b))]
           /\ source_next' = e + 1
    /\ UNCHANGED <<storeVars, trackerVars, runConst, run, alive, phase, hold,
                   pending, stage_failed, rcvd, unjoined_forward>>
    /\ UNCHANGED notPipeline

\* The Source sends everything up to the ending version as one batch.
SourceEmitWhole ==
    /\ run = "running" /\ alive[1]
    /\ source_next <= stream_config.request_ending_version
    /\ HasRoom(chan[1])
    /\ ReceiverAlive(1)
    /\ LET b == RawBatch(source_next, stream_config.request_ending_version)
       IN /\ chan' = [chan EXCEPT ![1] = Enqueue(@, b)]
          /\ sent' = [sent EXCEPT ![1] = Append(@, Meta(b))]
          /\ source_next' = b.end_version + 1
    /\ UNCHANGED <<storeVars, trackerVars, runConst, run, alive, phase, hold,
                   pending, stage_failed, rcvd, unjoined_forward>>
    /\ UNCHANGED notPipeline

\* The ending version is reached: the Source closes its output.
SourceClose ==
    /\ run = "running" /\ alive[1]
    /\ source_next > stream_config.request_ending_version
    /\ alive' = [alive EXCEPT ![1] = FALSE]
    /\ UNCHANGED <<storeVars, trackerVars, runConst, run, source_next, chan,
                   phase, hold, pending, stage_failed, rcvd, sent,
                   unjoined_forward>>
    /\ UNCHANGED notPipeline

\* The Source's send fails because the receiver is gone: its task ends.
SourceSendFail ==
    /\ run = "running" /\ alive[1]
    /\ source_next <= stream_config.request_ending_version
    /\ ~ReceiverAlive(1)
    /\ alive' = [alive EXCEPT ![1] = FALSE]
    /\ UNCHANGED <<storeVars, trackerVars, runConst, run, source_next, chan,
                   phase, hold, pending, stage_failed, rcvd, sent,
                   unjoined_forward>>
    /\ UNCHANGED notPipeline

(***************************************************************************)
(* What every connected step does (positions 2..4).                        *)
(***************************************************************************)
\* The step takes the next batch of its input channel.
StageRecv(p) ==
    /\ run = "running" /\ alive[p] /\ phase[p] = "idle"
    /\ chan[p - 1] # <<>>
    /\ hold' = [hold EXCEPT ![p] = Head(chan[p - 1])]
    /\ chan' = [chan EXCEPT ![p - 1] = Tail(@)]
    /\ phase' = [phase EXCEPT ![p] = "work"]
    /\ rcvd' = [rcvd EXCEPT ![p] = Append(@, Meta(Head(chan[p - 1])))]
    /\ pending' = IF Steps[p] = "extractor" THEN Lookups ELSE pending
    /\ UNCHANGED <<storeVars, trackerVars, runConst, run, source_next, alive,
                   stage_failed, sent, unjoined_forward>>
    /\ UNCHANGED notPipeline

\* The step forwards its output, when the channel has room.
StageSend(p) ==
    /\ run = "running" /\ alive[p] /\ phase[p] = "ready"
    /\ HasRoom(chan[p])
    /\ ReceiverAlive(p)
    /\ chan' = [chan EXCEPT ![p] = Enqueue(@, hold[p])]
    /\ sent' = [sent EXCEPT ![p] = Append(@, Meta(hold[p]))]
    /\ phase' = [phase EXCEPT ![p] = "idle"]
    /\ hold' = [hold EXCEPT ![p] = NoBatch]
    /\ UNCHANGED <<storeVars, trackerVars, runConst, run, source_next, alive,
                   pending, stage_failed, rcvd, unjoined_forward>>
    /\ UNCHANGED notPipeline

\* The send fails because the receiving task is gone: the step's task ends.
StageSendFail(p) ==
    /\ run = "running" /\ alive[p] /\ phase[p] = "ready"
    /\ ~ReceiverAlive(p)
    /\ alive' = [alive EXCEPT ![p] = FALSE]
    /\ phase' = [phase EXCEPT ![p] = "idle"]
    /\ hold' = [hold EXCEPT ![p] = NoBatch]
    /\ UNCHANGED <<storeVars, trackerVars, runConst, run, source_next, chan,
                   pending, stage_failed, rcvd, sent, unjoined_forward>>
    /\ UNCHANGED notPipeline

\* What the persisted checkpoint is once a step has ended on end of input:
\* the version tracker saves the watermark it holds, the other steps save
\* nothing.
FlushOnShutdownNever(step, wm, cp) == cp
FlushOnShutdown(step, wm, cp) ==
    IF step = "version_tracker" /\ wm # NoVersion THEN wm ELSE cp

\* Input closed and drained: the step ends and closes its own output; the
\* version tracker saves its watermark on the way out.
StageEndOfInput(p) ==
    /\ run = "running" /\ alive[p] /\ phase[p] = "idle"
    /\ chan[p - 1] = <<>>
    /\ ~alive[p - 1]
    /\ alive' = [alive EXCEPT ![p] = FALSE]
    /\ checkpoint' = FlushOnShutdown(Steps[p], watermark, checkpoint)
    /\ UNCHANGED <<current, history, last_commit, committed, trackerVars,
                   runConst, run,
                   source_next, chan, phase, hold, pending, stage_failed, rcvd,
                   sent, unjoined_forward>>
    /\ UNCHANGED notPipeline

(***************************************************************************)
(* The extractor.                                                          *)
(***************************************************************************)
\* One of the reference lookups of the batch in process completes.
LookupDone ==
    LET p == Idx("extractor") IN
    /\ run = "running" /\ alive[p] /\ phase[p] = "work"
    /\ \E l \in pending : pending' = pending \ {l}
    /\ UNCHANGED <<storeVars, trackerVars, runConst, run, source_next, alive,
                   chan, phase, hold, stage_failed, rcvd, sent,
                   unjoined_forward>>
    /\ UNCHANGED notPipeline

\* process returns its output for the batch.
ExtractorProcess ==
    LET p == Idx("extractor") IN
    /\ run = "running" /\ alive[p] /\ phase[p] = "work"
    /\ ExtractorJoined(pending)
    /\ IF ExtractorEmits(hold[p])
       THEN /\ hold' = [hold EXCEPT ![p] = ExtractorData(@)]
            /\ phase' = [phase EXCEPT ![p] = "ready"]
       ELSE /\ hold' = [hold EXCEPT ![p] = NoBatch]
            /\ phase' = [phase EXCEPT ![p] = "idle"]
    /\ unjoined_forward' = (unjoined_forward \/ pending # {})
    /\ pending' = {}
    /\ UNCHANGED <<storeVars, trackerVars, runConst, run, source_next, alive,
                   chan, stage_failed, rcvd, sent>>
    /\ UNCHANGED notPipeline

\* process fails (an unwrap on malformed input, an escalated lookup).
ExtractorFail ==
    LET p == Idx("extractor") IN
    /\ run = "running" /\ alive[p] /\ phase[p] = "work"
    /\ alive' = [alive EXCEPT ![p] = FALSE]
    /\ phase' = [phase EXCEPT ![p] = "idle"]
    /\ hold' = [hold EXCEPT ![p] = NoBatch]
    /\ pending' = {}
    /\ stage_failed' = TRUE
    /\ UNCHANGED <<storeVars, trackerVars, runConst, run, source_next, chan,
                   rcvd, sent, unjoined_forward>>
    /\ UNCHANGED notPipeline

(***************************************************************************)
(* The storer.                                                             *)
(***************************************************************************)
\* The batch went through the Storer before.
IsReplay(b) == \E c \in committed : c.meta = Meta(b)
\* The stored rows of the keys the batch writes.
RowsOf(c, b) == {r \in c : \E d \in b.current : d.key = r.key}

\* The batch is committed: history inserted, current-state rows upserted.
StorerProcess ==
    LET p == Idx("storer") IN
    /\ run = "running" /\ alive[p] /\ phase[p] = "work"
    /\ history' = InsertHistory(history, hold[p].history)
    /\ current' = UpsertCurrent(current, hold[p].current)
    /\ last_commit' = hold[p]
    /\ phase' = [phase EXCEPT ![p] = "ready"]
    /\ UNCHANGED <<checkpoint, committed, trackerVars, runConst, run,
                   source_next, alive, chan, hold, pending, stage_failed, rcvd,
                   sent, unjoined_forward>>
    /\ UNCHANGED notPipeline

\* A storage error: some of the batch's writes may have gone through.
StorerFail ==
    LET p == Idx("storer") IN
    /\ run = "running" /\ alive[p] /\ phase[p] = "work"
    /\ \E h_done \in BOOLEAN, rows \in SUBSET hold[p].current :
        /\ (~h_done => rows = {})
        /\ history' = IF h_done THEN InsertHistory(history, hold[p].history)
                      ELSE history
        /\ current' = UpsertCurrent(current, rows)
    /\ alive' = [alive EXCEPT ![p] = FALSE]
    /\ phase' = [phase EXCEPT ![p] = "idle"]
    /\ hold' = [hold EXCEPT ![p] = NoBatch]
    /\ stage_failed' = TRUE
    /\ UNCHANGED <<checkpoint, last_commit, committed, trackerVars, runConst,
                   run, source_next, chan, pending, rcvd, sent,
                   unjoined_forward>>
    /\ UNCHANGED notPipeline

(***************************************************************************)
(* The version tracker.                                                    *)
(***************************************************************************)
\* process of the tracker: the batch extends the watermark, or is a gap.
TrackerTake(b) ==
    /\ last_fed' = b
    /\ prev_watermark' = watermark
    /\ IF TrackerAccepts(watermark, b)
       THEN /\ watermark' = b.end_version
            /\ UNCHANGED <<tracker_gap, stage_failed>>
       ELSE /\ tracker_gap' = TRUE
            /\ stage_failed' = TRUE
            /\ UNCHANGED watermark

\* The tracker takes the batch into its watermark, or reports the gap (an
\* error of the step: its task ends).
TrackerProcess ==
    LET p == Idx("version_tracker") IN
    /\ run = "running" /\ alive[p] /\ phase[p] = "work"
    /\ TrackerTake(hold[p])
    /\ IF TrackerAccepts(watermark, hold[p])
       THEN /\ phase' = [phase EXCEPT ![p] = "ready"]
            /\ UNCHANGED <<alive, hold>>
       ELSE /\ alive' = [alive EXCEPT ![p] = FALSE]
            /\ phase' = [phase EXCEPT ![p] = "idle"]
            /\ hold' = [hold EXCEPT ![p] = NoBatch]
    /\ UNCHANGED <<storeVars, runConst, run, source_next, chan, pending, rcvd,
                   sent, unjoined_forward>>
    /\ UNCHANGED notPipeline

\* The periodic timer fires: the accumulated watermark is saved.
TimerTick ==
    LET p == Idx("version_tracker") IN
    /\ run = "running" /\ alive[p]
    /\ watermark # NoVersion
    /\ checkpoint # watermark
    /\ checkpoint' = watermark
    /\ UNCHANGED <<current, history, last_commit, committed, trackerVars, runVars>>
    /\ UNCHANGED notPipeline

(***************************************************************************)
(* The run loop of run_processor, and the process around it.               *)
(***************************************************************************)
\* Ok(txn_context): log the versions and go on.
RunLoopRecv ==
    /\ run = "running"
    /\ chan[4] # <<>>
    /\ chan' = [chan EXCEPT ![4] = Tail(@)]
    /\ UNCHANGED <<storeVars, trackerVars, runConst, run, source_next, alive,
                   phase, hold, pending, stage_failed, rcvd, sent,
                   unjoined_forward>>
    /\ UNCHANGED notPipeline

\* What the arm `Err(e)` of the loop's match breaks with.
RunLoopErrArmFails(failed) == "failed"
RunLoopErrArm(failed) == "ok"

EndRunFrame ==
    /\ source_next' = 0
    /\ rcvd' = [p \in Positions |-> <<>>]
    /\ sent' = [p \in Positions |-> <<>>]
    /\ UNCHANGED <<storeVars, runConst, tracker_gap, stage_failed,
                   unjoined_forward>>
    /\ UNCHANGED notPipeline

\* Err(e): the channel is closed and empty; `break Ok(())`.
RunLoopExit ==
    /\ run = "running"
    /\ chan[4] = <<>>
    /\ ~alive[4]
    /\ EndRun(RunLoopErrArm(stage_failed))
    /\ EndRunFrame

\* The process is killed.
Crash ==
    /\ run = "running"
    /\ EndRun("crashed")
    /\ EndRunFrame

\* The process is started again: it resumes from the checkpoint.
Restart ==
    /\ run # "running"
    /\ restarts < MaxRestarts
    /\ restarts' = restarts + 1
    /\ FreshRun(config_starting_version, config_ending_version, checkpoint)
    /\ UNCHANGED <<storeVars, config_starting_version, config_ending_version>>
    /\ UNCHANGED notPipeline

(***************************************************************************)
(* The version tracker on its own, fed any batch at all.                   *)
(***************************************************************************)
TrackerInit ==
    /\ checkpoint = NoVersion
    /\ current = {}
    /\ history = <<>>
    /\ last_commit = NoBatch
    /\ committed = {}
    /\ config_starting_version = NoVersion
    /\ config_ending_version = MaxTrackVersion
    /\ run = "running"
    /\ stream_config = TransactionStreamConfig(0, MaxTrackVersion)
    /\ checkpoint_at_start = NoVersion
    /\ source_next = 0
    /\ alive = [p \in Positions |-> Steps[p] = "version_tracker"]
    /\ chan = [p \in Positions |-> <<>>]
    /\ phase = [p \in Positions |-> "idle"]
    /\ hold = [p \in Positions |-> NoBatch]
    /\ pending = {}
    /\ watermark = NoVersion
    /\ tracker_gap = FALSE
    /\ last_fed = NoBatch
    /\ prev_watermark = NoVersion
    /\ stage_failed = FALSE
    /\ rcvd = [p \in Positions |-> <<>>]
    /\ sent = [p \in Positions |-> <<>>]
    /\ unjoined_forward = FALSE
    /\ restarts = 0

\* process is called with the batch [s, e].
TrackerFeed ==
    LET p == Idx("version_tracker") IN
    /\ run = "running" /\ alive[p]
    /\ \E s \in 0..MaxTrackVersion : \E e \in s..MaxTrackVersion :
        /\ TrackerTake(RawBatch(s, e))
        /\ alive' = [alive EXCEPT ![p] = TrackerAccepts(watermark, RawBatch(s, e))]
    /\ UNCHANGED <<storeVars, runConst, run, source_next, chan, phase, hold,
                   pending, rcvd, sent, unjoined_forward>>
    /\ UNCHANGED notPipeline

TrackerNext ==
    \/ TrackerFeed
    \/ TimerTick
    \/ StageEndOfInput(Idx("version_tracker"))

(***************************************************************************)
(* The Storer on its own, given any batch in any order, any number of      *)
(* times.                                                                  *)
(***************************************************************************)
StorerInit ==
    /\ checkpoint = NoVersion
    /\ current = {}
    /\ history = <<>>
    /\ last_commit = NoBatch
    /\ committed = {}
    /\ config_starting_version = NoVersion
    /\ config_ending_version = MaxVersion
    /\ run = "running"
    /\ stream_config = TransactionStreamConfig(0, MaxVersion)
    /\ checkpoint_at_start = NoVersion
    /\ source_next = 0
    /\ alive = [p \in Positions |-> Steps[p] = "storer"]
    /\ chan = [p \in Positions |-> <<>>]
    /\ phase = [p \in Positions |-> "idle"]
    /\ hold = [p \in Positions |-> NoBatch]
    /\ pending = {}
    /\ watermark = NoVersion
    /\ tracker_gap = FALSE
    /\ last_fed = NoBatch
    /\ prev_watermark = NoVersion
    /\ stage_failed = FALSE
    /\ rcvd = [p \in Positions |-> <<>>]
    /\ sent = [p \in Positions |-> <<>>]
    /\ unjoined_forward = FALSE
    /\ restarts = 0

\* process is called with the extracted batch [s, e].
StorerTake ==
    LET p == Idx("storer") IN
    /\ run = "running" /\ alive[p] /\ phase[p] = "idle"
    /\ \E s \in 0..MaxVersion : \E e \in s..Min(s + MaxBatchSize - 1, MaxVersion) :
        hold' = [hold EXCEPT ![p] = ExtractorData(RawBatch(s, e))]
    /\ phase' = [phase EXCEPT ![p] = "work"]
    /\ UNCHANGED <<storeVars, trackerVars, runConst, run, source_next, alive,
                   chan, pending, stage_failed, rcvd, sent, unjoined_forward>>
    /\ UNCHANGED notPipeline

\* process has returned: the batch is noted as stored, with its rows.
StorerForward ==
    LET p == Idx("storer") IN
    /\ run = "running" /\ alive[p] /\ phase[p] = "ready"
    /\ committed' = IF IsReplay(hold[p]) THEN committed
                    ELSE committed \cup {[meta |-> Meta(hold[p]),
                                          rows |-> RowsOf(current, hold[p])]}
    /\ phase' = [phase EXCEPT ![p] = "idle"]
    /\ hold' = [hold EXCEPT ![p] = NoBatch]
    /\ UNCHANGED <<checkpoint, current, history, last_commit, trackerVars,
                   runConst, run, source_next, alive, chan, pending,
                   stage_failed, rcvd, sent, unjoined_forward>>
    /\ UNCHANGED notPipeline

StorerNext ==
    \/ StorerTake
    \/ StorerProcess
    \/ StorerFail
    \/ StorerForward

(***************************************************************************)
(* Start-up alone: any configured start, any checkpoint left by earlier    *)
(* runs.                                                                   *)
(***************************************************************************)
VersionOrNone(n) == {NoVersion} \cup 0..n

ResumeInit ==
    /\ checkpoint \in VersionOrNone(MaxResumeVersion)
    /\ current = {}
    /\ history = <<>>
    /\ last_commit = NoBatch
    /\ committed = {}
    /\ config_starting_version \in VersionOrNone(MaxResumeVersion)
    /\ config_ending_version = MaxResumeVersion
    /\ run = "crashed"
    /\ stream_config = TransactionStreamConfig(0, 0)
    /\ checkpoint_at_start = NoVersion
    /\ source_next = 0
    /\ alive = [p \in Positions |-> FALSE]
    /\ chan = [p \in Positions |-> <<>>]
    /\ phase = [p \in Positions |-> "idle"]
    /\ hold = [p \in Positions |-> NoBatch]
    /\ pending = {}
    /\ watermark = NoVersion
    /\ tracker_gap = FALSE
    /\ last_fed = NoBatch
    /\ prev_watermark = NoVersion
    /\ stage_failed = FALSE
    /\ rcvd = [p \in Positions |-> <<>>]
    /\ sent = [p \in Positions |-> <<>>]
    /\ unjoined_forward = FALSE
    /\ restarts = 0

ResumeNext ==
    \/ Restart
    \/ SourceEmit
    \/ SourceClose

PipelineNext ==
    \/ SourceEmit
    \/ SourceClose
    \/ SourceSendFail
    \/ \E p \in 2..4 : StageRecv(p)
    \/ \E p \in 2..4 : StageSend(p)
    \/ \E p \in 2..3 : StageSendFail(p)
    \/ \E p \in 2..4 : StageEndOfInput(p)
    \/ LookupDone
    \/ ExtractorProcess
    \/ ExtractorFail
    \/ StorerProcess
    \/ StorerFail
    \/ TrackerProcess
    \/ TimerTick
    \/ RunLoopRecv
    \/ RunLoopExit
    \/ Crash
    \/ Restart

(***************************************************************************)
(* Reference lookups at the call sites: the second pass over the changes   *)
(* of a batch, each change naming one reference key.                       *)
(***************************************************************************)
MaxDeltas == 3
RefKeys == {"h1", "h2"}

CallSites == {"collection_data_write", "delegated_voter_write",
              "voter_pre_deployment", "inactive_share_write",
              "inactive_share_delete"}

\* The entity type whose rows the call site produces.
EntityOf(site) ==
    CASE site = "collection_data_write" -> "collection_data"
      [] site = "delegated_voter_write" -> "current_delegated_voter"
      [] site = "voter_pre_deployment"  -> "current_delegated_voter"
      [] OTHER                          -> "current_delegator_balance"

\* The resolver function the call site calls.
ResolverOf(site) ==
    CASE site = "collection_data_write" -> "get_collection_creator"
      [] site = "delegated_voter_write" ->
             "get_delegation_pool_address_by_table_handle"
      [] site = "voter_pre_deployment"  -> "get_existence_by_pk"
      [] OTHER -> "get_staking_pool_from_inactive_share_handle"

\* `match map.get(key) { Some(v) => v, None => <resolver>(..).await }`
NeedsPersistedAlways(hit) == TRUE
NeedsPersisted(hit) == ~hit

\* What the call site does with an exhausted lookup: go on without the row
\* ("degrade") or return the error, which from_transaction unwraps ("escalate").
OnExhausted(site) ==
    IF site = "inactive_share_delete" THEN "escalate" ELSE "degrade"

\* The value the call site goes on with after an exhausted lookup that it
\* does not escalate: from_write_table_item of the delegated voter takes the
\* empty string as the pool address.
EmptyAddress == ""

\* `if !pool_address.is_empty()`: rows are built only for a pool address.
EmitGuardAlways(pool_address) == TRUE
EmitGuard(pool_address) == pool_address # EmptyAddress

\* The row the call site produces from the outcome of its lookup ("local",
\* "store" or "exhausted"), "none" when it produces no row. The existence
\* lookup of the pre-deployment voters produces its default-voter row when
\* the key was found neither locally nor by get_existence_by_pk.
RowFor(site, outcome, pool_address) ==
    CASE site = "voter_pre_deployment" ->
             IF outcome = "exhausted" THEN "default_voter" ELSE "none"
      [] site = "delegated_voter_write" ->
             IF EmitGuard(pool_address) THEN "delegated_voter" ELSE "none"
      [] OTHER ->
             IF outcome = "exhausted" THEN "none" ELSE EntityOf(site)

\* What the lookup yields for the key: the value of the mapping or of the
\* stored row (named after the key), or the empty address.
ValueFor(outcome, k) == IF outcome = "exhausted" THEN EmptyAddress ELSE k

\* The record of one lookup and of the row built from it.
Produced(site, k, outcome) ==
    [site |-> site, key |-> k, from |-> outcome,
     pool_address |-> ValueFor(outcome, k),
     row |-> RowFor(site, outcome, ValueFor(outcome, k))]

\* Whether the call site (or its resolver) logs the exhausted lookup.
LogsExhausted(site) ==
    site \in {"collection_data_write", "delegated_voter_write",
              "inactive_share_write"}

SiteParked ==
    /\ local_ctx = {}
    /\ stored = {}
    /\ cs_pc = "done"
    /\ cs_site = "collection_data_write"
    /\ cs_key = "h1"
    /\ cs_left = 0
    /\ invocations = [k \in RefKeys |-> 0]
    /\ rows_out = {}
    /\ applied = {}
    /\ cs_logs = 0
    /\ cs_continued = 0

SiteInit ==
    /\ local_ctx \in SUBSET RefKeys
    /\ stored \in SUBSET RefKeys
    /\ cs_pc = "idle"
    /\ cs_site = "collection_data_write"
    /\ cs_key = "h1"
    /\ cs_left = MaxDeltas
    /\ invocations = [k \in RefKeys |-> 0]
    /\ rows_out = {}
    /\ applied = {}
    /\ cs_logs = 0
    /\ cs_continued = 0

\* The loop over the changes takes the next one: its call site and its key.
SiteTakeChange ==
    /\ UNCHANGED <<resolverVars, reducerVars, ctxVars, pureVars,
                   pipelineVars>>
    /\ cs_pc = "idle"
    /\ cs_left > 0
    /\ cs_left' = cs_left - 1
    /\ cs_site' \in CallSites
    /\ cs_key' \in RefKeys
    /\ cs_pc' = "local"
    /\ UNCHANGED <<local_ctx, stored, invocations, rows_out, applied, cs_logs,
                   cs_continued>>

\* The in-batch mapping is consulted; on a hit its value is used.
SiteLocalLookup ==
    /\ UNCHANGED <<resolverVars, reducerVars, ctxVars, pureVars,
                   pipelineVars>>
    /\ cs_pc = "local"
    /\ IF NeedsPersisted(cs_key \in local_ctx)
       THEN /\ cs_pc' = "resolve"
            /\ UNCHANGED rows_out
       ELSE /\ cs_pc' = "idle"
            /\ rows_out' = rows_out \cup {Produced(cs_site, cs_key, "local")}
    /\ UNCHANGED <<local_ctx, stored, cs_site, cs_key, cs_left, invocations,
                   applied, cs_logs, cs_continued>>

\* The resolver returns the stored value (one of its reads succeeded).
SiteResolveOk ==
    /\ UNCHANGED <<resolverVars, reducerVars, ctxVars, pureVars,
                   pipelineVars>>
    /\ cs_pc = "resolve"
    /\ cs_key \in stored
    /\ invocations' = [invocations EXCEPT ![cs_key] = @ + 1]
    /\ rows_out' = rows_out \cup {Produced(cs_site, cs_key, "store")}
    /\ cs_pc' = "idle"
    /\ UNCHANGED <<local_ctx, stored, cs_site, cs_key, cs_left, applied,
                   cs_logs, cs_continued>>

\* The resolver runs out of retries (no row, or every read failed).
SiteResolveExhausted ==
    /\ UNCHANGED <<resolverVars, reducerVars, ctxVars, pureVars,
                   pipelineVars>>
    /\ cs_pc = "resolve"
    /\ invocations' = [invocations EXCEPT ![cs_key] = @ + 1]
    /\ applied' = applied \cup
           {[entity |-> EntityOf(cs_site), policy |-> OnExhausted(cs_site)]}
    /\ IF OnExhausted(cs_site) = "escalate"
       THEN /\ cs_pc' = "aborted"
            /\ UNCHANGED <<cs_logs, cs_continued, rows_out>>
       ELSE /\ cs_pc' = "idle"
            /\ rows_out' = rows_out \cup
                   {Produced(cs_site, cs_key, "exhausted")}
            /\ cs_continued' = cs_continued + 1
            /\ cs_logs' = IF LogsExhausted(cs_site) THEN cs_logs + 1
                          ELSE cs_logs
    /\ UNCHANGED <<local_ctx, stored, cs_site, cs_key, cs_left>>

\* The last change is done: from_transaction returns its rows.
SiteFinish ==
    /\ UNCHANGED <<resolverVars, reducerVars, ctxVars, pureVars,
                   pipelineVars>>
    /\ cs_pc = "idle"
    /\ cs_left = 0
    /\ cs_pc' = "done"
    /\ UNCHANGED <<local_ctx, stored, cs_site, cs_key, cs_left, invocations,
                   rows_out, applied, cs_logs, cs_continued>>

SiteNext ==
    \/ SiteTakeChange
    \/ SiteLocalLookup
    \/ SiteResolveOk
    \/ SiteResolveExhausted
    \/ SiteFinish

(***************************************************************************)
(* The in-batch table-handle context of the token extractor: a first pass  *)
(* over the batch collects, from the write resources of its user           *)
(* transactions, which owner each table handle belongs to; the second pass *)
(* interprets the table items of the batch with it.                        *)
(***************************************************************************)
MaxCtxTxns == 3
TableHandles == {"t1", "t2"}
NoHandle == "none"

\* One transaction of the batch: whether its txn_data is TxnData::User, the
\* handle its write resource declares and the handle its table item names.
\* Neither pass looks into a transaction that is not a user transaction.
CtxTxns ==
    [user : {TRUE}, declares : TableHandles \cup {NoHandle},
     item : TableHandles \cup {NoHandle}]
    \cup {[user |-> FALSE, declares |-> NoHandle, item |-> NoHandle]}

\* transaction.version of the i-th transaction of the batch
CtxVersion(i) == i - 1

\* table_handle_to_owner.extend(map): the new entry replaces the old one.
ContextExtendKeepFirst(m, h, v) ==
    IF m[h] = NoVersion THEN [m EXCEPT ![h] = v] ELSE m
ContextExtend(m, h, v) == [m EXCEPT ![h] = v]

ContextParked ==
    /\ ctx_txns = <<>>
    /\ ctx_pc = "done"
    /\ ctx_i = 0
    /\ table_handle_to_owner = [h \in TableHandles |-> NoVersion]
    /\ interpreted = {}

\* process is called with a batch; the map starts empty.
ContextInit ==
    /\ ctx_txns \in [1..MaxCtxTxns -> CtxTxns]
    /\ ctx_pc = "first"
    /\ ctx_i = 1
    /\ table_handle_to_owner = [h \in TableHandles |-> NoVersion]
    /\ interpreted = {}

\* get_table_handle_to_owner_from_transactions, one transaction of its loop.
FirstPassTransaction ==
    /\ UNCHANGED <<resolverVars, reducerVars, siteVars, pureVars,
                   pipelineVars>>
    /\ ctx_pc = "first"
    /\ ctx_i <= Len(ctx_txns)
    /\ LET t == ctx_txns[ctx_i] IN
       table_handle_to_owner' =
           IF t.user /\ t.declares # NoHandle
           THEN ContextExtend(table_handle_to_owner, t.declares,
                              CtxVersion(ctx_i))
           ELSE table_handle_to_owner
    /\ ctx_i' = ctx_i + 1
    /\ UNCHANGED <<ctx_txns, ctx_pc, interpreted>>

\* The first pass returns the map; the parse of the batch starts.
FirstPassReturns ==
    /\ UNCHANGED <<resolverVars, reducerVars, siteVars, pureVars,
                   pipelineVars>>
    /\ ctx_pc = "first"
    /\ ctx_i > Len(ctx_txns)
    /\ ctx_pc' = "second"
    /\ ctx_i' = 1
    /\ UNCHANGED <<ctx_txns, table_handle_to_owner, interpreted>>

\* The parse of one transaction: its table item is interpreted with the
\* entry table_handle_to_owner.get(handle) gives.
SecondPassTransaction ==
    /\ UNCHANGED <<resolverVars, reducerVars, siteVars, pureVars,
                   pipelineVars>>
    /\ ctx_pc = "second"
    /\ ctx_i <= Len(ctx_txns)
    /\ LET t == ctx_txns[ctx_i] IN
       interpreted' =
           IF t.user /\ t.item # NoHandle
           THEN interpreted \cup
                  {[version |-> CtxVersion(ctx_i), handle |-> t.item,
                    from |-> table_handle_to_owner[t.item]]}
           ELSE interpreted
    /\ ctx_i' = ctx_i + 1
    /\ UNCHANGED <<ctx_txns, ctx_pc, table_handle_to_owner>>

\* The parse of the batch returns.
SecondPassReturns ==
    /\ UNCHANGED <<resolverVars, reducerVars, siteVars, pureVars,
                   pipelineVars>>
    /\ ctx_pc = "second"
    /\ ctx_i > Len(ctx_txns)
    /\ ctx_pc' = "done"
    /\ UNCHANGED <<ctx_txns, ctx_i, table_handle_to_owner, interpreted>>

ContextNext ==
    \/ FirstPassTransaction
    \/ FirstPassReturns
    \/ SecondPassTransaction
    \/ SecondPassReturns

(***************************************************************************)
(* Inactive-share delegator balances: the rows the write and the delete    *)
(* table items of inactive share tables produce, as the store keeps them.  *)
(***************************************************************************)
MaxShareTxns == 3
ShareTables == {"s1", "s2"}
Delegators == {"d1", "d2"}

\* inactive_share_to_pool[table_handle].parent_table_handle: the inactive
\* pool table the share table belongs to.
InactivePoolHandle(s) == IF s = "s1" THEN "p1" ELSE "p2"

\* The staking pool of an inactive pool table.
PoolAddress(parent) == <<"pool", parent>>

\* The delegator_balances (history) row of either path.
ShareHistoryRow(s, d, v, shares) ==
    [transaction_version |-> v, delegator_address |-> d,
     pool_address |-> PoolAddress(InactivePoolHandle(s)),
     pool_type |-> "inactive_shares", table_handle |-> s, shares |-> shares,
     parent_table_handle |-> InactivePoolHandle(s)]

\* The current row get_inactive_share_from_write_table_item returns.
ShareWriteRow(s, d, v, shares) ==
    [delegator_address |-> d,
     pool_address |-> PoolAddress(InactivePoolHandle(s)),
     pool_type |-> "inactive_shares", table_handle |-> s,
     last_transaction_version |-> v, shares |-> shares,
     parent_table_handle |-> InactivePoolHandle(s)]

\* The current row get_inactive_share_from_delete_table_item returns.
ShareDeleteRow(s, d, v) ==
    [delegator_address |-> d,
     pool_address |-> PoolAddress(InactivePoolHandle(s)),
     pool_type |-> "inactive_shares", table_handle |-> s,
     last_transaction_version |-> v, shares |-> 0,
     parent_table_handle |-> s]

\* Primary key of current_delegator_balances.
SharePK(r) ==
    <<r.delegator_address, r.pool_address, r.pool_type>>

ShareUpsert(c, r) == {x \in c : SharePK(x) # SharePK(r)} \cup {r}

\* CurrentDelegatorBalanceQuery::get_by_inactive_share_handle: the rows the
\* filter parent_table_handle = table_handle selects (first() takes one).
get_by_inactive_share_handle(c, table_handle) ==
    {r \in c : r.parent_table_handle = table_handle}

ShareParked ==
    /\ ib_current = {}
    /\ ib_history = {}
    /\ ib_version = MaxShareTxns

ShareInit ==
    /\ ib_current = {}
    /\ ib_history = {}
    /\ ib_version = 0

\* A write table item of an inactive share table is extracted and stored.
ShareWrite ==
    /\ UNCHANGED <<resolverVars, reducerVars, siteVars, ctxVars, claimVars,
                   pipelineVars>>
    /\ ib_version < MaxShareTxns
    /\ \E s \in ShareTables, d \in Delegators :
        /\ ib_current' =
              ShareUpsert(ib_current, ShareWriteRow(s, d, ib_version, 1))
        /\ ib_history' =
              ib_history \cup {ShareHistoryRow(s, d, ib_version, 1)}
    /\ ib_version' = ib_version + 1

\* A delete table item of an inactive share table is extracted and stored.
ShareDelete ==
    /\ UNCHANGED <<resolverVars, reducerVars, siteVars, ctxVars, claimVars,
                   pipelineVars>>
    /\ ib_version < MaxShareTxns
    /\ \E s \in ShareTables, d \in Delegators :
        /\ ib_current' =
              ShareUpsert(ib_current, ShareDeleteRow(s, d, ib_version))
        /\ ib_history' =
              ib_history \cup {ShareHistoryRow(s, d, ib_version, 0)}
    /\ ib_version' = ib_version + 1

ShareNext == ShareWrite \/ ShareDelete

(***************************************************************************)
(* CurrentTokenPendingClaim::from_delete_table_item: the owner of a        *)
(* deleted token offer.                                                    *)
(***************************************************************************)
NoOwner == "no_owner"
Owners == {"a1", "a2"}

\* The arguments: whether the key decodes to a TokenOfferId, the handle of
\* the table item, table_handle_to_owner, and the entry tokens_claimed has
\* for the offer's token_data_id ("absent": none; else its from_address,
\* which may be None).
ClaimInputs ==
    [is_offer : BOOLEAN, handle : TableHandles,
     table_handle_to_owner : [TableHandles -> Owners \cup {NoOwner}],
     token_claimed : Owners \cup {NoOwner, "absent"}]

\* maybe_owner_address after the two sources have been tried.
OwnerEventsFirst(in) ==
    IF in.token_claimed \notin {"absent", NoOwner} THEN in.token_claimed
    ELSE in.table_handle_to_owner[in.handle]
Owner(in) ==
    IF in.table_handle_to_owner[in.handle] # NoOwner
    THEN in.table_handle_to_owner[in.handle]
    ELSE IF in.token_claimed # "absent" THEN in.token_claimed
    ELSE NoOwner

\* What a call has given: "pending" (not returned yet), "none" (Ok(None)),
\* "panic", or "row" (Ok(Some(row)), with the row's from_address).
ClaimResult(result, owner) == [result |-> result, from_address |-> owner]

from_delete_table_item(in) ==
    IF ~in.is_offer THEN ClaimResult("none", NoOwner)
    ELSE IF Owner(in) = NoOwner THEN ClaimResult("panic", NoOwner)
    ELSE ClaimResult("row", Owner(in))

ClaimParked ==
    /\ claim_in = [is_offer |-> FALSE, handle |-> "t1",
                   table_handle_to_owner |->
                       [h \in TableHandles |-> NoOwner],
                   token_claimed |-> "absent"]
    /\ claim_out = ClaimResult("none", NoOwner)

ClaimInit ==
    /\ claim_in \in ClaimInputs
    /\ claim_out = ClaimResult("pending", NoOwner)

ClaimDelete ==
    /\ UNCHANGED <<resolverVars, reducerVars, siteVars, ctxVars, shareVars,
                   pipelineVars>>
    /\ claim_out.result = "pending"
    /\ claim_out' = from_delete_table_item(claim_in)
    /\ UNCHANGED claim_in

ClaimNext == ClaimDelete

(***************************************************************************)
(* Specifications.                                                         *)
(***************************************************************************)
InitResolver == ResolverInit /\ ReducerParked /\ SiteParked /\ PipelineParked
    /\ ContextParked /\ ShareParked /\ ClaimParked
SpecResolver == InitResolver /\ [][ResolverNext]_vars

InitReducer == ReducerInit /\ ResolverParked /\ SiteParked /\ PipelineParked
    /\ ContextParked /\ ShareParked /\ ClaimParked
SpecReducer == InitReducer /\ [][ReducerNext]_vars

InitDelete == DeleteInit /\ ResolverParked /\ SiteParked /\ PipelineParked
    /\ ContextParked /\ ShareParked /\ ClaimParked
SpecDelete == InitDelete /\ [][ReducerNext]_vars

MalformedNext == ReducerNext \/ TxnDataAbsent \/ TxnInfoAbsent
InitMalformed == ReducerInit /\ ResolverParked /\ SiteParked /\ PipelineParked
    /\ ContextParked /\ ShareParked /\ ClaimParked
SpecMalformed == InitMalformed /\ [][MalformedNext]_vars

InitShare ==
    ShareInit /\ ResolverParked /\ ReducerParked /\ SiteParked /\ PipelineParked
    /\ ContextParked /\ ClaimParked
SpecShare == InitShare /\ [][ShareNext]_vars

InitClaim ==
    ClaimInit /\ ResolverParked /\ ReducerParked /\ SiteParked /\ PipelineParked
    /\ ContextParked /\ ShareParked
SpecClaim == InitClaim /\ [][ClaimNext]_vars

InitContext ==
    ContextInit /\ ResolverParked /\ ReducerParked /\ SiteParked /\ PipelineParked
    /\ ShareParked /\ ClaimParked
SpecContext == InitContext /\ [][ContextNext]_vars

InitSite == SiteInit /\ ResolverParked /\ ReducerParked /\ PipelineParked
    /\ ContextParked /\ ShareParked /\ ClaimParked
SpecSite == InitSite /\ [][SiteNext]_vars

InitTracker == TrackerInit /\ ResolverParked /\ ReducerParked /\ SiteParked
    /\ ContextParked /\ ShareParked /\ ClaimParked
SpecTracker == InitTracker /\ [][TrackerNext]_vars

InitStorer == StorerInit /\ ResolverParked /\ ReducerParked /\ SiteParked
    /\ ContextParked /\ ShareParked /\ ClaimParked
SpecStorer == InitStorer /\ [][StorerNext]_vars

InitResume == ResumeInit /\ ResolverParked /\ ReducerParked /\ SiteParked
    /\ ContextParked /\ ShareParked /\ ClaimParked
SpecResume == InitResume /\ [][ResumeNext]_vars

\* A run in which no stage returns an error and the process is not killed:
\* every task that can take a step eventually takes it (the runtime schedules
\* every runnable task); the timer is not required to fire.
CleanRunNext ==
    \/ SourceEmit
    \/ SourceClose
    \/ \E p \in 2..4 : StageRecv(p)
    \/ \E p \in 2..4 : StageSend(p)
    \/ \E p \in 2..4 : StageEndOfInput(p)
    \/ LookupDone
    \/ ExtractorProcess
    \/ StorerProcess
    \/ TrackerProcess
    \/ TimerTick
    \/ RunLoopRecv
    \/ RunLoopExit

CleanRunFairness ==
    /\ WF_vars(SourceEmit \/ SourceClose)
    /\ \A p \in 2..4 :
          WF_vars(StageRecv(p) \/ StageSend(p) \/ StageEndOfInput(p))
    /\ WF_vars(LookupDone \/ ExtractorProcess)
    /\ WF_vars(StorerProcess)
    /\ WF_vars(TrackerProcess)
    /\ WF_vars(RunLoopRecv \/ RunLoopExit)

\* The end-to-end scenario: a run without errors over the ledger window
\* [ScenarioStart, ScenarioStart + 2], the Source free to send it as one batch.
ScenarioInit ==
    /\ checkpoint = NoVersion
    /\ current = {}
    /\ history = <<>>
    /\ last_commit = NoBatch
    /\ committed = {}
    /\ config_starting_version = ScenarioStart
    /\ config_ending_version = ScenarioStart + 2
    /\ run = "running"
    /\ checkpoint_at_start = NoVersion
    /\ stream_config =
         TransactionStreamConfig(
             get_starting_version(config_starting_version, NoVersion),
             get_end_version(config_ending_version))
    /\ source_next = stream_config.starting_version
    /\ alive = [p \in Positions |-> TRUE]
    /\ chan = [p \in Positions |-> <<>>]
    /\ phase = [p \in Positions |-> "idle"]
    /\ hold = [p \in Positions |-> NoBatch]
    /\ pending = {}
    /\ watermark = NoVersion
    /\ tracker_gap = FALSE
    /\ last_fed = NoBatch
    /\ prev_watermark = NoVersion
    /\ stage_failed = FALSE
    /\ rcvd = [p \in Positions |-> <<>>]
    /\ sent = [p \in Positions |-> <<>>]
    /\ unjoined_forward = FALSE
    /\ restarts = 0

ScenarioNext == CleanRunNext \/ SourceEmitWhole
InitScenario ==
    ScenarioInit /\ ResolverParked /\ ReducerParked /\ SiteParked
    /\ ContextParked /\ ShareParked /\ ClaimParked
SpecScenario == InitScenario /\ [][ScenarioNext]_vars

InitCleanRun == PipelineInit /\ ResolverParked /\ ReducerParked /\ SiteParked
    /\ ContextParked /\ ShareParked /\ ClaimParked
SpecCleanRun == InitCleanRun /\ [][CleanRunNext]_vars /\ CleanRunFairness

Init == PipelineInit /\ ResolverParked /\ ReducerParked /\ SiteParked
    /\ ContextParked /\ ShareParked /\ ClaimParked
Next == PipelineNext
Spec == Init /\ [][Next]_vars

(***************************************************************************)
(* C4. Resolver bounded retry: a lookup whose every read fails performs    *)
(* exactly query_retries reads (3 when query_retries = 3) and then returns *)
(* its failure result; no resolver ever reads more than query_retries      *)
(* times.                                                                  *)
(***************************************************************************)
C4_BoundedRetry ==
    /\ reads <= query_retries
    /\ (r_pc = "done" /\ all_failed) =>
           /\ reads = query_retries
           /\ r_result = FailureResult(resolver)

C4_Witness ==
    /\ r_pc = "done"
    /\ all_failed
    /\ row_exists
    /\ query_retries = 3
    /\ reads = 3
    /\ resolver = "get_staking_pool_from_inactive_share_handle"

(***************************************************************************)
(* C1. Current-state last-write-wins: when the batch is reduced, every key *)
(* some delta of the batch names has exactly one row in the output, and    *)
(* that row is the delta of the highest transaction version (the last one  *)
(* written at that version); keys no delta names have none.                *)
(***************************************************************************)
RowOfDelta(d) ==
    IF d.kind = "delete" THEN DeleteRow(d.key, d.version)
    ELSE Row(d.key, d.version, d.index)
DeltasOf(k) == {d \in deltas : d.key = k}
Latest(k) ==
    CHOOSE d \in DeltasOf(k) :
        \A e \in DeltasOf(k) :
            \/ e.version < d.version
            \/ (e.version = d.version /\ e.index <= d.index)

StorerSeen == rcvd[Idx("storer")]

C3_Contiguity ==
    /\ (watermark # prev_watermark) =>
          /\ prev_watermark = NoVersion \/
                last_fed.start_version = prev_watermark + 1
          /\ watermark = last_fed.end_version
    /\ (/\ last_fed # NoBatch
        /\ prev_watermark # NoVersion
        /\ last_fed.start_version # prev_watermark + 1) =>
          /\ tracker_gap
          /\ ~alive[Idx("version_tracker")]
    /\ tracker_gap =>
          /\ watermark = prev_watermark
          /\ last_fed.start_version # prev_watermark + 1
    /\ checkpoint <= watermark

C3_Witness ==
    /\ tracker_gap
    /\ last_fed = RawBatch(15, 20)
    /\ prev_watermark = 10
    /\ watermark = 10
    /\ checkpoint = 10

(***************************************************************************)
(* C5. Every key has exactly one current-state row, and the                *)
(* last_transaction_version of a stored row never decreases, whatever      *)
(* batches are stored in a run and across a restart that resumes from the  *)
(* last checkpoint.                                                        *)
(***************************************************************************)
OneRowPerKey ==
    \A r1 \in current : \A r2 \in current : r1.key = r2.key => r1 = r2

RowsNeverRegress ==
    \A r \in current : \E n \in current' :
        /\ n.key = r.key
        /\ n.last_transaction_version >= r.last_transaction_version

C5_RowVersionMonotonic == [][OneRowPerKey' /\ RowsNeverRegress]_vars

(***************************************************************************)
(* C6. The checkpoint is never past the end_version of the latest batch    *)
(* the Storer fully committed (and there is none before the first commit). *)
(***************************************************************************)
CommittedEnd ==
    IF last_commit = NoBatch THEN NoVersion ELSE last_commit.end_version

C6_CheckpointBehindCommit == checkpoint <= CommittedEnd

C6_Witness ==
    /\ checkpoint = 0
    /\ CommittedEnd = MaxVersion
    /\ restarts = 0

(***************************************************************************)
(* C7. Replaying a batch that was committed before adds no history row and *)
(* leaves the current-state rows of its keys as they were after the first  *)
(* pass.                                                                   *)
(***************************************************************************)
StorerCommits ==
    /\ phase[Idx("storer")] = "work"
    /\ phase'[Idx("storer")] = "ready"

FirstPass(b) == (CHOOSE c \in committed : c.meta = Meta(b)).rows

C7_IdempotentReplay ==
    [][(StorerCommits /\ IsReplay(hold[Idx("storer")])) =>
          /\ history' = history
          /\ RowsOf(current', hold[Idx("storer")]) =
                FirstPass(hold[Idx("storer")])]_vars

C7_Witness ==
    /\ phase[Idx("storer")] = "ready"
    /\ IsReplay(hold[Idx("storer")])
    /\ Len(history) = 2
    /\ Cardinality(committed) >= 2

(***************************************************************************)
(* C8. At startup the checkpoint is read and the Source is created with    *)
(* the starting version max(configured start, checkpoint + 1), or the      *)
(* configured start (0 by default) when there is no checkpoint; the first  *)
(* batch streamed starts exactly there.                                    *)
(***************************************************************************)
C8_Resumption ==
    (run = "running") =>
        LET cfg == IF config_starting_version = NoVersion
                   THEN 0 ELSE config_starting_version
            sv  == stream_config.starting_version
        IN /\ checkpoint_at_start = checkpoint
           /\ (checkpoint = NoVersion) => (sv = cfg)
           /\ (checkpoint # NoVersion /\ cfg >= checkpoint + 1) => (sv = cfg)
           /\ (checkpoint # NoVersion /\ cfg < checkpoint + 1) =>
                 (sv = checkpoint + 1)
           /\ (sent[1] # <<>>) => (sent[1][1].start_version = sv)
           /\ (sent[1] = <<>>) => (source_next = sv)

C8_Witness ==
    /\ run = "running"
    /\ checkpoint = 4
    /\ config_starting_version = 2
    /\ stream_config.starting_version = 5
    /\ sent[1] # <<>>

(***************************************************************************)
(* C9. The run ends cleanly when the stream ends, and ends with a hard     *)
(* failure when a stage returned an error.                                 *)
(***************************************************************************)
C9_FailurePropagates == (run = "ok") => ~stage_failed

(***************************************************************************)
(* C10. Every edge of the pipeline is first-in first-out: what a step      *)
(* receives is what the step before it sent, in that order, and what it    *)
(* sends keeps the order of what it received; the extractor forwards a     *)
(* batch only after all the lookups it started for it have completed.      *)
(***************************************************************************)
IsPrefix(a, b) ==
    /\ Len(a) <= Len(b)
    /\ \A i \in 1..Len(a) : a[i] = b[i]

Pos(seq, x) == CHOOSE i \in 1..Len(seq) : seq[i] = x

KeepsOrder(out, in) ==
    /\ \A i \in 1..Len(out) : \E j \in 1..Len(in) : in[j] = out[i]
    /\ \A i \in 1..Len(out) : \A k \in 1..Len(out) :
          (i < k) => (Pos(in, out[i]) < Pos(in, out[k]))

MetaSeq(q) == [i \in 1..Len(q) |-> Meta(q[i])]

Held(p) == IF hold[p] = NoBatch THEN <<>> ELSE <<Meta(hold[p])>>

NoRepeat(q) == \A i \in 1..Len(q) : \A j \in 1..Len(q) : q[i] = q[j] => i = j

C11_Backpressure ==
    /\ \A p \in Positions : Len(chan[p]) <= channel_size
    /\ \A p \in 1..3 : sent[p] = rcvd[p + 1] \o MetaSeq(chan[p])
    /\ \A p \in 2..4 : NoRepeat(rcvd[p])
    /\ ~stage_failed => \A p \in 2..4 : rcvd[p] = sent[p] \o Held(p)

C11_Witness ==
    /\ ~stage_failed
    /\ Len(chan[2]) = channel_size
    /\ phase[2] = "ready"
    /\ Len(chan[1]) = channel_size
    /\ Len(sent[1]) = 3

(***************************************************************************)
(* C12. Termination: with an ending version and no stage error, the run    *)
(* eventually ends cleanly; a step is gone only once its input is drained  *)
(* and everything it received has been forwarded; and when the run loop    *)
(* exits it has taken every batch the Source emitted, up to the ending     *)
(* version.                                                                *)
(***************************************************************************)
ClosedAfterDrain ==
    \A p \in 2..4 :
        (run = "running" /\ ~alive[p]) =>
            /\ ~alive[p - 1]
            /\ chan[p - 1] = <<>>
            /\ hold[p] = NoBatch
            /\ sent[p] = rcvd[p]

ExitsComplete ==
    (run = "running" /\ run' # "running") =>
        /\ run' = "ok"
        /\ chan[4] = <<>>
        /\ sent[4] = sent[1]
        /\ sent[4] # <<>>
        /\ sent[4][1].start_version = stream_config.starting_version
        /\ sent[4][Len(sent[4])].end_version =
              stream_config.request_ending_version

C12_Termination ==
    /\ <>(run = "ok")
    /\ []ClosedAfterDrain
    /\ [][ExitsComplete]_vars

C12_Witness ==
    /\ run = "ok"
    /\ checkpoint = MaxVersion
    /\ last_commit # NoBatch
    /\ Len(history) = 2

(***************************************************************************)
(* C13. Resolver protocol order: at every call site the in-batch mapping   *)
(* is consulted first; the persisted store is read only for a key absent   *)
(* from it, and a key present locally is served from the mapping with no   *)
(* persisted read.                                                         *)
(***************************************************************************)
C13_LocalFirst ==
    /\ (cs_pc = "resolve") => (cs_key \notin local_ctx)
    /\ \A k \in local_ctx : invocations[k] = 0
    /\ \A r \in rows_out : (r.from = "local") <=> (r.key \in local_ctx)
    /\ \A r \in rows_out : (r.from = "store") => (r.key \in stored)

C13_Witness ==
    /\ cs_pc = "done"
    /\ local_ctx = {"h1"}
    /\ invocations["h2"] > 0
    /\ \E r \in rows_out : r.key = "h1" /\ r.from = "local" /\ r.row # "none"
    /\ \E r \in rows_out : r.key = "h2" /\ r.from = "store" /\ r.row # "none"

(***************************************************************************)
(* C14. Resolver pauses: a pause happens only between two consecutive      *)
(* reads and always lasts query_retry_delay_ms; a lookup that first        *)
(* succeeds on attempt k makes k reads and k - 1 pauses and returns the    *)
(* value read; an exhausted lookup makes query_retries reads with a pause  *)
(* between each two and none after the last.                               *)
(***************************************************************************)
C14_FixedPauses ==
    /\ \A i \in 1..Len(sleeps) : sleeps[i] = query_retry_delay_ms
    /\ (r_pc = "sleep") => (tried < query_retries /\ Len(sleeps) = reads - 1)
    /\ (r_pc = "read") => (Len(sleeps) = reads /\ reads = tried - 1)
    /\ (r_pc = "done" /\ r_result = SuccessResult(resolver)) =>
          /\ reads = tried
          /\ Len(sleeps) = reads - 1
    /\ (r_pc = "done" /\ r_result = FailureResult(resolver)) =>
          /\ reads = query_retries
          /\ Len(sleeps) = IF reads = 0 THEN 0 ELSE reads - 1

C14_Witness ==
    /\ r_pc = "done"
    /\ r_result = SuccessResult(resolver)
    /\ query_retries = 5
    /\ reads = 3
    /\ Len(sleeps) = 2
    /\ resolver = "get_collection_creator"

(***************************************************************************)
(* C15. Deletion is a value: once a delete-type change names a key, the    *)
(* key keeps exactly one row in the in-batch mapping, and while that       *)
(* delete is the key's latest change the row has the zero amount and the   *)
(* deleting transaction's version as last_transaction_version.             *)
(***************************************************************************)
Effective == Extend(batch_current, txn_current)

C16_MalformedIsFatal == (skipped # {}) => (red_pc = "aborted")

(***************************************************************************)
(* C17. One failure policy per entity type: the call sites that met an     *)
(* exhausted lookup while producing rows of one entity type all applied    *)
(* the same policy (all degraded, or all escalated).                       *)
(***************************************************************************)
C17_OnePolicyPerEntity ==
    \A a, b \in applied : (a.entity = b.entity) => (a.policy = b.policy)

(***************************************************************************)
(* C18. An unresolvable reference is never silently dropped: every         *)
(* exhausted lookup after which processing continued has a log record.     *)
(***************************************************************************)
C18_ExhaustedIsLogged == cs_logs = cs_continued

(***************************************************************************)
(* C19. Resolve once per batch: the persisted-store resolver is invoked at *)
(* most once for each distinct key while one batch is processed.           *)
(***************************************************************************)
C19_ResolveOnce == \A k \in RefKeys : invocations[k] <= 1

(***************************************************************************)
(* C20. The persisted checkpoint last_success_version is updated           *)
(* monotonically: no step of the processor (timer flush, flush at          *)
(* shutdown, kill, restart) lowers it.                                     *)
(***************************************************************************)
C20_CheckpointMonotonic == [][checkpoint' >= checkpoint]_vars

C20_Witness ==
    /\ restarts >= 1
    /\ checkpoint_at_start # NoVersion
    /\ checkpoint > checkpoint_at_start

(***************************************************************************)
(* C21. The tracker saves its watermark on a timer tick and at shutdown,   *)
(* not on every batch: while a run goes on the persisted checkpoint never  *)
(* exceeds the watermark; the step that takes a batch into the watermark   *)
(* leaves the checkpoint alone; and a run without errors ends with the     *)
(* checkpoint equal to the end_version of the last batch the tracker took. *)
(***************************************************************************)
CheckpointBehindWatermark == (run = "running") => (checkpoint <= watermark)

NotOnEveryBatch == (watermark' # watermark) => (checkpoint' = checkpoint)

FlushedAtExit ==
    (run = "running" /\ run' = "ok") =>
        /\ last_fed # NoBatch
        /\ watermark = last_fed.end_version
        /\ checkpoint = watermark
        /\ checkpoint' = checkpoint

C21_TimerAndShutdownFlush ==
    /\ []CheckpointBehindWatermark
    /\ [][NotOnEveryBatch]_vars
    /\ [][FlushedAtExit]_vars
    /\ <>(run = "ok" /\ checkpoint = stream_config.request_ending_version)

C21_Witness ==
    /\ run = "running"
    /\ checkpoint # NoVersion
    /\ checkpoint < watermark
    /\ last_fed # NoBatch
    /\ last_fed.end_version = watermark

(***************************************************************************)
(* C22. The extractor preserves version metadata: whenever its process     *)
(* returns for a batch, it holds one output batch with the input's         *)
(* (start_version, end_version), also when the batch yields no row; and    *)
(* while no stage has failed, what it forwarded is, batch for batch, what  *)
(* it received, with at most the batch in process outstanding.             *)
(***************************************************************************)
ExtractorReturns ==
    LET p == Idx("extractor") IN
    (phase[p] = "work" /\ phase'[p] # "work" /\ alive'[p]) =>
        /\ phase'[p] = "ready"
        /\ hold'[p] # NoBatch
        /\ Meta(hold'[p]) = Meta(hold[p])

ExtractorForwardsAll ==
    LET p == Idx("extractor") IN
    (run = "running" /\ ~stage_failed) =>
        /\ IsPrefix(sent[p], rcvd[p])
        /\ Len(rcvd[p]) - Len(sent[p]) <= 1

C22_MetadataPreserved ==
    /\ [][ExtractorReturns]_vars
    /\ []ExtractorForwardsAll

C22_Witness ==
    LET p == Idx("extractor") IN
    /\ ExtractCurrent(1, 1) = {}
    /\ ExtractHistory(1, 1) = <<>>
    /\ \E i \in 1..Len(sent[p]) :
          sent[p][i] = [start_version |-> 1, end_version |-> 1]
    /\ sent[p] = rcvd[p]

(***************************************************************************)
(* C23. The resolver only looks backward in version order: the entry of    *)
(* the in-batch context used to interpret a table item at version v came   *)
(* from a write at a version <= v.                                         *)
(***************************************************************************)
C23_LooksBackward ==
    \A r \in interpreted : r.from <= r.version

(***************************************************************************)
(* C27. The in-batch table-handle context is complete before any table     *)
(* item is interpreted: an item is interpreted with an entry whenever some *)
(* user transaction of the batch, earlier or later, writes a resource      *)
(* declaring its handle, and with the entry of the last such transaction   *)
(* in batch order.                                                         *)
(***************************************************************************)
Declaring(h) ==
    {i \in 1..Len(ctx_txns) : ctx_txns[i].user /\ ctx_txns[i].declares = h}

LastDeclaring(h) == CHOOSE i \in Declaring(h) : \A j \in Declaring(h) : j <= i

C27_ContextComplete ==
    /\ (ctx_pc = "first") => (interpreted = {})
    /\ \A r \in interpreted :
          IF Declaring(r.handle) = {} THEN r.from = NoVersion
          ELSE r.from = CtxVersion(LastDeclaring(r.handle))

C27_Witness ==
    \E r \in interpreted :
        /\ Cardinality(Declaring(r.handle)) >= 2
        /\ r.from > r.version
        /\ \E i \in Declaring(r.handle) : CtxVersion(i) < r.version

(***************************************************************************)
(* C24. End-to-end scenario: for the ledger window [100,102] with a write  *)
(* to E at 100 (value A), a write to E at 101 (value B) and a write to F   *)
(* at 102, once the checkpoint is 102 the store holds one history row per  *)
(* write (three), exactly one current-state row for E, with value B and    *)
(* last_transaction_version 101, and exactly one for F; the checkpoint     *)
(* never passes 102 and the timer flush takes it there.                    *)
(***************************************************************************)
ValueB == Payload(ScenarioStart + 1, 0)

ScenarioStored ==
    /\ Len(history) = 3
    /\ \A i \in 1..3 :
          history[i].transaction_version = ScenarioStart + i - 1
    /\ {r \in current : r.key = "E"} =
          {[key |-> "E", value |-> ValueB,
            last_transaction_version |-> ScenarioStart + 1]}
    /\ Cardinality({r \in current : r.key = "F"}) = 1
    /\ Cardinality(current) = 2

C24_EndToEnd ==
    /\ checkpoint <= ScenarioStart + 2
    /\ (checkpoint = ScenarioStart + 2) => ScenarioStored

C24_Witness ==
    /\ sent[1] = <<[start_version |-> ScenarioStart,
                    end_version |-> ScenarioStart + 2]>>
    /\ checkpoint = ScenarioStart + 2
    /\ alive[Idx("version_tracker")]
    /\ ScenarioStored

(***************************************************************************)
(* C25. Default voters do not override newer data: a default-voter row is  *)
(* emitted only for a key that is absent from previous_delegated_voters    *)
(* and has no row in the persisted table, whatever the store reads return. *)
(***************************************************************************)
C25_DefaultVoterOnlyIfAbsent ==
    \A r \in rows_out :
        (r.row = "default_voter") =>
            (r.key \notin local_ctx /\ r.key \notin stored)

(***************************************************************************)
(* C30. from_write_table_item of the delegated voter never emits a row     *)
(* with an empty delegation_pool_address: when the pool address is found   *)
(* neither in the in-batch mapping nor by the persisted lookup it logs an  *)
(* error, builds no row and goes on; otherwise its rows carry the pool     *)
(* address the lookup gave.                                                *)
(***************************************************************************)
VoterRows == {r \in rows_out : r.site = "delegated_voter_write"}

NoEmptyPoolAddress ==
    \A r \in VoterRows :
        /\ (r.row # "none") => (r.pool_address # EmptyAddress)
        /\ (r.from = "exhausted") => (r.row = "none")
        /\ (r.from # "exhausted") =>
              (r.row = "delegated_voter" /\ r.pool_address = r.key)

MissingPoolIsLogged ==
    (cs_site = "delegated_voter_write" /\ cs_continued' # cs_continued) =>
        /\ cs_logs' = cs_logs + 1
        /\ cs_pc' = "idle"
        /\ Produced(cs_site, cs_key, "exhausted") \in rows_out'

C26_ParentHandleKept ==
    /\ \A r \in ib_current :
          r.parent_table_handle = InactivePoolHandle(r.table_handle)
    /\ \A h \in ib_history :
          h.parent_table_handle = InactivePoolHandle(h.table_handle)
    /\ \A r \in ib_current :
          get_by_inactive_share_handle(
              ib_current, InactivePoolHandle(r.table_handle)) # {}

(***************************************************************************)
(* C28. The owner of a deleted token offer is taken from the in-batch      *)
(* table_handle_to_owner map when it holds the handle, otherwise from the  *)
(* tokens_claimed entry of the offer's token_data_id; the call panics when *)
(* neither gives an owner, and never returns a row without one.            *)
(***************************************************************************)
C28_ClaimOwner ==
    (claim_out.result # "pending" /\ claim_in.is_offer) =>
        LET local == claim_in.table_handle_to_owner[claim_in.handle]
            event == claim_in.token_claimed
        IN /\ (local # NoOwner) =>
                  (claim_out.result = "row" /\ claim_out.from_address = local)
           /\ (local = NoOwner /\ event \in Owners) =>
                  (claim_out.result = "row" /\ claim_out.from_address = event)
           /\ (local = NoOwner /\ event \notin Owners) =>
                  (claim_out.result = "panic")
           /\ (claim_out.result = "row") => (claim_out.from_address \in Owners)

C28_Witness ==
    /\ claim_in.is_offer
    /\ claim_in.table_handle_to_owner[claim_in.handle] = "a1"
    /\ claim_in.token_claimed = "a2"
    /\ claim_out.result = "row"
    /\ claim_out.from_address = "a1"

(***************************************************************************)
(* C29. With query_retries = 0 a persisted-store resolver never reads and  *)
(* never pauses: the loop test fails on entry and the call ends with its   *)
(* failure result (Err, or false for get_existence_by_pk), whether or not  *)
(* the store holds a matching row.                                         *)
(***************************************************************************)
C29_ZeroRetries ==
    (query_retries = 0) =>
        /\ reads = 0
        /\ sleeps = <<>>
        /\ tried = 0
        /\ r_pc \in {"loop", "done"}
        /\ (r_pc = "done") => (r_result = FailureResult(resolver))

C29_Witness ==
    /\ query_retries = 0
    /\ row_exists
    /\ r_pc = "done"
    /\ resolver = "get_existence_by_pk"
    /\ r_result = "false"
    /\ reads = 0

====
